---- MODULE Spec2Model ----
(***************************************************************************)
(* The message correlation engine of mcp-implementation/mcp_client.py:     *)
(* MCPClient with its caller threads (_send_request), its reader thread    *)
(* (_read_loop, _handle_message), its life cycle (start, stop) and the     *)
(* peer process at the other end of the two pipes.                         *)
(***************************************************************************)
EXTENDS Integers, Sequences, FiniteSets, TLC

\* ------------------------------------------------------------------ bounds

\* Lines the peer writes to its stdout from the initial state on.
MaxSent == 2
\* Lines that can sit unread in the peer's stdout pipe.
MaxInbound == 1
\* Lines a client writes to the stdin of mcp_server.py.
MaxLines == 2
\* Calls of start() on one client.
MaxStarts == 2
\* Calls of _send_request by the application threads of one session.
MaxCalls == 3

\* The threads that call the high-level API (list_tools, call_tool, ...),
\* each of which is one _send_request.
AppCallers == {"t1", "t2"}
\* "main" is the thread that runs start() and stop(); its _send_request is
\* the initialize call of _initialize.
Threads == {"main"} \cup AppCallers

VARIABLES
    process,            \* self.process: "none" | "running" | "exited"
    running,            \* self.running
    next_id,            \* self.next_id
    pending_requests,   \* self.pending_requests: id -> the Queue stored
                        \*   (a Queue is named by the thread that made it)
    server_info,        \* self.server_info: "none" | "set"
    queue,              \* response_queue of each thread's _send_request
    pc,                 \* position of each thread in _send_request
    request_id,         \* local request_id (0: not yet assigned)
    loaded,             \* value of self.next_id read by `self.next_id += 1`
    response,           \* local response (NoMsg: none)
    outcome,            \* how _send_request ended
    life,               \* position of the main thread in start()
    stop_pc,            \* position of the main thread in stop()
    reader,             \* the reader thread: [pc, msg, q]
    stdin_stream,       \* what has been written to process.stdin
    stdout_stream,      \* lines written by the peer, not yet read
    sent,               \* number of lines the peer has written since
                        \*   the initial state
    first_seen,         \* history: id -> the first message carrying that id
                        \*   that _handle_message was given
    blocked_at_stop,    \* history: the threads blocked in _send_request
                        \*   when stop() was called
    api,                \* the call each application thread makes:
                        \*   [method, arg]
    server_pos,         \* mcp_server.py: chunks of its stdin the server has
                        \*   consumed
    initialized,        \* mcp_server.py: self.initialized
    invoked,            \* history: the handlers the server has invoked
    starts,             \* number of calls of start() so far
    stdin_full          \* the pipe to the peer's stdin is full and the peer
                        \*   does not read it: a write to it blocks

vars == <<process, running, next_id, pending_requests, server_info, queue, pc,
          request_id, loaded, response, outcome, life, stop_pc, reader,
          stdin_stream, stdout_stream, sent, first_seen, blocked_at_stop,
          api, server_pos, initialized, invoked, starts, stdin_full>>

client_vars == <<next_id, pending_requests, queue, pc, request_id, loaded,
                 response, outcome>>
peer_vars == <<stdout_stream, sent>>
hist_vars == <<first_seen, blocked_at_stop>>
server_vars == <<api, server_pos, initialized, invoked>>
run_vars == <<starts, stdin_full>>

\* ---------------------------------------------------------------- messages

\* One JSON object of the protocol.  type is the shape of the object:
\*   "call"          {id, method, params}
\*   "reply"         {id, result} or {id, error}   (id 0 is JSON null)
\*   "notification"  {method}
\* val stands for the payload (params of a Call, result or error of a Reply):
\* a Call carries the name of the thread that made it and the peer's Reply to
\* it carries the same name.  "malformed" is a line that is not JSON.
\* arg is what the params of a Call name (see WithParams) and error is the
\* error object of a Reply made by mcp_server.py (see create_error_response).
NoError == [code |-> 0, message |-> "none", about |-> "none", data |-> "none"]

Msg(type, id, method, kind, val) ==
    [type |-> type, id |-> id, method |-> method, kind |-> kind, val |-> val,
     arg |-> "none", error |-> NoError]

NoMsg == Msg("none", 0, "none", "none", "none")

\* request = {"jsonrpc": "2.0", "id": request_id, "method": method, ...}
Request(id, method, origin) == Msg("call", id, method, "none", origin)

\* A notification that carries an id.
NotificationWithId(method) == Msg("call", 1, method, "none", "none")

\* notification = {"jsonrpc": "2.0", "method": method}
Notification(method) == Msg("notification", 0, method, "none", "none")

Reply(id, kind, val) == Msg("reply", id, "none", kind, val)

Malformed == Msg("malformed", 0, "none", "none", "none")

\* A line whose bytes are not text in the encoding of the pipe (Popen with
\* text=True decodes process.stdout strictly).
Undecodable == Msg("undecodable", 0, "none", "none", "none")

\* A line that is valid JSON and not an object: an array, a number, a string
\* or null.
NonObject == Msg("nonobject", 0, "none", "none", "none")

\* The params of a Call: arg is "none" (no params, or params the method does
\* not look into), "known" or "unknown" (params naming a tool, a resource or a
\* prompt that is registered or not), or "bad" (params that are not an object).
WithParams(m, arg) == [m EXCEPT !.arg = arg]

\* The line terminator "\n" appended to every encoded message.
NL == Msg("newline", 0, "none", "none", "none")

\* "id" in message
HasId(m) == m.type \in {"call", "reply"}

\* "error" in response
HasError(m) == m.type = "reply" /\ m.kind = "error"

\* The method of a thread's call: _initialize calls "initialize", the
\* high-level API an application method.
MethodOf(c) == IF c = "main" THEN "initialize" ELSE api[c].method

\* The params of a thread's call.
ParamsOf(c) == IF c = "main" THEN "none" ELSE api[c].arg

\* The call of an application thread in the specifications that leave the
\* method open: some method of the high-level API, lines 278-349.
AppCall == [method |-> "app", arg |-> "none"]

\* ------------------------------------------------------------ dict helpers

\* self.pending_requests[request_id] = response_queue
Put(d, k, v) == [x \in DOMAIN d \cup {k} |-> IF x = k THEN v ELSE d[x]]

\* A del that removes nothing.
DelNothing(d, k) == d

\* del self.pending_requests[request_id]
Del(d, k) == [x \in DOMAIN d \ {k} |-> d[x]]

\* A write that leaves out the line terminator.
WriteNoNewline(stream, m) == stream \o <<m>>

\* self.process.stdin.write(request_json + "\n"): one write of the whole line
WriteLine(stream, m) == stream \o <<m, NL>>

\* A lookup that takes the oldest pending entry, whatever the id.
LookupOldest(d, id) == d[CHOOSE k \in DOMAIN d : \A j \in DOMAIN d : k <= j]

\* queue = self.pending_requests[request_id]
LookupQueue(d, id) == d[id]

\* ------------------------------------------------------------------- Init

Init ==
    /\ process = "none"
    /\ running = FALSE
    /\ next_id = 1
    /\ pending_requests = <<>>
    /\ server_info = "none"
    /\ queue = [c \in Threads |-> <<>>]
    /\ pc = [c \in Threads |-> "idle"]
    /\ request_id = [c \in Threads |-> 0]
    /\ loaded = [c \in Threads |-> 0]
    /\ response = [c \in Threads |-> NoMsg]
    /\ outcome = [c \in Threads |-> "none"]
    /\ life = "created"
    /\ stop_pc = "none"
    /\ reader = [pc |-> "idle", msg |-> NoMsg, q |-> "none"]
    /\ stdin_stream = <<>>
    /\ stdout_stream = <<>>
    /\ sent = 0
    /\ first_seen = <<>>
    /\ blocked_at_stop = {}
    /\ api = [c \in AppCallers |-> AppCall]
    /\ server_pos = 0
    /\ initialized = FALSE
    /\ invoked = <<>>
    /\ starts = 0
    /\ stdin_full = FALSE

\* ---------------------------------------------------------- _send_request

\* A thread may enter _send_request: an application thread at any time, the
\* main thread when start() has reached _initialize.
MayCall(c) == IF c = "main" THEN life = "handshake" ELSE TRUE

\* if not self.process or not self.process.stdin: raise RuntimeError
Connected == process # "none"

\* lines 180-183: the check of the connection, which raises RuntimeError, and
\* request_id = self.next_id
Enter(c) ==
    /\ pc[c] = "idle"
    /\ MayCall(c)
    /\ IF Connected
         THEN /\ request_id' = [request_id EXCEPT ![c] = next_id]
              /\ pc' = [pc EXCEPT ![c] = "load"]
              /\ outcome' = outcome
         ELSE /\ request_id' = request_id
              /\ pc' = [pc EXCEPT ![c] = "done"]
              /\ outcome' = [outcome EXCEPT ![c] = "not_connected"]
    /\ UNCHANGED <<run_vars, server_vars, process, running, next_id, pending_requests, server_info,
                   queue, loaded, response, life, stop_pc, reader,
                   stdin_stream, peer_vars, hist_vars>>

\* line 184, the read of `self.next_id += 1`
LoadNextId(c) ==
    /\ pc[c] = "load"
    /\ loaded' = [loaded EXCEPT ![c] = next_id]
    /\ pc' = [pc EXCEPT ![c] = "store"]
    /\ UNCHANGED <<run_vars, server_vars, process, running, next_id, pending_requests, server_info,
                   queue, request_id, response, outcome, life, stop_pc, reader,
                   stdin_stream, peer_vars, hist_vars>>

\* line 184, the write of `self.next_id += 1`
StoreNextId(c) ==
    /\ pc[c] = "store"
    /\ next_id' = loaded[c] + 1
    /\ loaded' = [loaded EXCEPT ![c] = 0]
    /\ pc' = [pc EXCEPT ![c] = "register"]
    /\ UNCHANGED <<run_vars, server_vars, process, running, pending_requests, server_info, queue,
                   request_id, response, outcome, life, stop_pc,
                   reader, stdin_stream, peer_vars, hist_vars>>

\* lines 196-217: the call of c has created its response_queue and has not
\* left _send_request; the Queue is a local of the call, and once the call has
\* left nothing reads it any more
InFlight(c) ==
    pc[c] \in {"write", "write_failed", "wait", "expire", "finally", "finally_del"}

\* lines 196-197: response_queue = Queue(); pending_requests[request_id] = it
Register(c) ==
    /\ pc[c] = "register"
    /\ queue' = [queue EXCEPT ![c] = <<>>]
    /\ pending_requests' = Put(pending_requests, request_id[c], c)
    /\ pc' = [pc EXCEPT ![c] = "write"]
    /\ UNCHANGED <<run_vars, server_vars, process, running, next_id, server_info, request_id, loaded,
                   response, outcome, life, stop_pc, reader, stdin_stream,
                   peer_vars, hist_vars>>

\* lines 200-205: the write and flush; they raise when the peer has exited,
\* and they block while the pipe is full
WriteRequest(c) ==
    /\ pc[c] = "write"
    /\ ~(process = "running" /\ stdin_full)
    /\ IF process = "running"
         THEN /\ stdin_stream' =
                   WriteLine(stdin_stream,
                             WithParams(Request(request_id[c], MethodOf(c), c),
                                        ParamsOf(c)))
              /\ pc' = [pc EXCEPT ![c] = "wait"]
         ELSE /\ stdin_stream' = stdin_stream
              /\ pc' = [pc EXCEPT ![c] = "write_failed"]
    /\ UNCHANGED <<run_vars, server_vars, process, running, next_id, pending_requests, server_info,
                   queue, request_id, loaded, response, outcome, life, stop_pc,
                   reader, peer_vars, hist_vars>>

\* lines 206-207: del self.pending_requests[request_id]; raise RuntimeError
\* (the del raises KeyError when the key is gone)
WriteFailed(c) ==
    /\ pc[c] = "write_failed"
    /\ IF request_id[c] \in DOMAIN pending_requests
         THEN /\ pending_requests' = Del(pending_requests, request_id[c])
              /\ outcome' = [outcome EXCEPT ![c] = "send_failed"]
         ELSE /\ pending_requests' = pending_requests
              /\ outcome' = [outcome EXCEPT ![c] = "send_key_error"]
    /\ pc' = [pc EXCEPT ![c] = "done"]
    /\ queue' = [queue EXCEPT ![c] = <<>>]
    /\ UNCHANGED <<run_vars, server_vars, process, running, next_id, server_info, request_id,
                   loaded, response, life, stop_pc, reader, stdin_stream,
                   peer_vars, hist_vars>>

\* line 211: response = response_queue.get(timeout=timeout), an item arrived
GetResponse(c) ==
    /\ pc[c] = "wait"
    /\ queue[c] # <<>>
    /\ response' = [response EXCEPT ![c] = Head(queue[c])]
    /\ queue' = [queue EXCEPT ![c] = Tail(queue[c])]
    /\ pc' = [pc EXCEPT ![c] = "finally"]
    /\ UNCHANGED <<run_vars, server_vars, process, running, next_id, pending_requests, server_info,
                   request_id, loaded, outcome, life, stop_pc, reader,
                   stdin_stream, peer_vars, hist_vars>>

\* lines 211-212: the get raised Empty, the timeout elapsed with no item
Timeout(c) ==
    /\ pc[c] = "wait"
    /\ queue[c] = <<>>
    /\ pc' = [pc EXCEPT ![c] = "expire"]
    /\ UNCHANGED <<run_vars, server_vars, process, running, next_id, pending_requests, server_info,
                   queue, request_id, loaded, response, outcome, life, stop_pc,
                   reader, stdin_stream, peer_vars, hist_vars>>

\* lines 213-214: del self.pending_requests[request_id]; raise TimeoutError
\* (the del raises KeyError when the key is gone, and that is then the
\* exception in flight)
Expire(c) ==
    /\ pc[c] = "expire"
    /\ IF request_id[c] \in DOMAIN pending_requests
         THEN /\ pending_requests' = Del(pending_requests, request_id[c])
              /\ outcome' = [outcome EXCEPT ![c] = "timeout"]
         ELSE /\ pending_requests' = pending_requests
              /\ outcome' = [outcome EXCEPT ![c] = "timeout_key_error"]
    /\ pc' = [pc EXCEPT ![c] = "finally"]
    /\ UNCHANGED <<run_vars, server_vars, process, running, next_id, server_info, queue, request_id,
                   loaded, response, life, stop_pc, reader, stdin_stream,
                   peer_vars, hist_vars>>

\* lines 220-227: raise RuntimeError("Server error ...") or return the result
Classify(m) == IF HasError(m) THEN "server_error" ELSE "result"

\* line 216: if request_id in self.pending_requests; when it is not, the
\* function leaves: with the exception in flight, or through lines 220-227
FinallyCheck(c) ==
    /\ pc[c] = "finally"
    /\ IF request_id[c] \in DOMAIN pending_requests
         THEN /\ pc' = [pc EXCEPT ![c] = "finally_del"]
              /\ outcome' = outcome
              /\ queue' = queue
         ELSE /\ pc' = [pc EXCEPT ![c] = "done"]
              /\ outcome' = [outcome EXCEPT ![c] =
                     IF @ = "none" THEN Classify(response[c]) ELSE @]
              /\ queue' = [queue EXCEPT ![c] = <<>>]
    /\ UNCHANGED <<run_vars, server_vars, process, running, next_id, pending_requests, server_info,
                   request_id, loaded, response, life, stop_pc, reader,
                   stdin_stream, peer_vars, hist_vars>>

\* line 217: del self.pending_requests[request_id] (KeyError when the key is
\* gone, replacing any exception in flight), then as above
FinallyDel(c) ==
    /\ pc[c] = "finally_del"
    /\ IF request_id[c] \in DOMAIN pending_requests
         THEN /\ pending_requests' = Del(pending_requests, request_id[c])
              /\ outcome' = [outcome EXCEPT ![c] =
                     IF @ = "none" THEN Classify(response[c]) ELSE @]
         ELSE /\ pending_requests' = pending_requests
              /\ outcome' = [outcome EXCEPT ![c] = "key_error"]
    /\ pc' = [pc EXCEPT ![c] = "done"]
    /\ queue' = [queue EXCEPT ![c] = <<>>]
    /\ UNCHANGED <<run_vars, server_vars, process, running, next_id, server_info, request_id,
                   loaded, response, life, stop_pc, reader, stdin_stream,
                   peer_vars, hist_vars>>

SendRequest(c) ==
    \/ Enter(c)
    \/ LoadNextId(c)
    \/ StoreNextId(c)
    \/ Register(c)
    \/ WriteRequest(c)
    \/ WriteFailed(c)
    \/ GetResponse(c)
    \/ Timeout(c)
    \/ Expire(c)
    \/ FinallyCheck(c)
    \/ FinallyDel(c)

\* ------------------------------------------------------------- _read_loop

\* lines 108-122: the next line of process.stdout.  The iteration of line
\* 108 raises UnicodeDecodeError on bytes that are not text, outside the try
\* of line 118: the except of line 126 logs it and the thread returns.  The
\* loop breaks when self.running is false; json.loads raises JSONDecodeError
\* on a line that is not JSON, which is logged, and the loop goes on.
ReaderRead ==
    /\ reader.pc = "read"
    /\ stdout_stream # <<>>
    /\ stdout_stream' = Tail(stdout_stream)
    /\ reader' =
         IF Head(stdout_stream).type = "undecodable"
           THEN [reader EXCEPT !.pc = "error"]
         ELSE IF ~running THEN [reader EXCEPT !.pc = "break"]
         ELSE IF Head(stdout_stream).type = "malformed" THEN reader
         ELSE [reader EXCEPT !.pc = "handle", !.msg = Head(stdout_stream)]
    /\ UNCHANGED <<run_vars, server_vars, process, running, server_info, life, stop_pc, stdin_stream,
                   sent, client_vars, hist_vars>>

\* line 108: the iteration ends when the peer has exited and the pipe is
\* empty; line 129, the thread returns
ReaderEOF ==
    /\ reader.pc = "read"
    /\ stdout_stream = <<>>
    /\ process = "exited"
    /\ reader' = [reader EXCEPT !.pc = "eof"]
    /\ UNCHANGED <<run_vars, server_vars, process, running, server_info, life, stop_pc, stdin_stream,
                   peer_vars, client_vars, hist_vars>>

\* A test that takes every message with an id for the reply to a pending
\* call.
AnyIdPending(m, d) == HasId(m)

\* "id" in message and message["id"] in self.pending_requests
IsPendingReply(m, d) == HasId(m) /\ m.id \in DOMAIN d

\* lines 149, 155-161: classify the message; a notification and an
\* unexpected message are logged
HandleCheck ==
    /\ reader.pc = "handle"
    /\ reader' =
         IF IsPendingReply(reader.msg, pending_requests)
           THEN [reader EXCEPT !.pc = "lookup"]
           ELSE [reader EXCEPT !.pc = "read", !.msg = NoMsg]
    /\ first_seen' =
         IF HasId(reader.msg) /\ reader.msg.id \notin DOMAIN first_seen
           THEN Put(first_seen, reader.msg.id, reader.msg)
           ELSE first_seen
    /\ UNCHANGED <<run_vars, server_vars, process, running, server_info, life, stop_pc, stdin_stream,
                   peer_vars, client_vars, blocked_at_stop>>

\* lines 150-151: queue = self.pending_requests[request_id]; a KeyError (the
\* key was deleted since line 149) is caught at line 123 and logged
HandleLookup ==
    /\ reader.pc = "lookup"
    /\ reader' =
         IF reader.msg.id \in DOMAIN pending_requests
           THEN [reader EXCEPT !.pc = "put",
                               !.q = LookupQueue(pending_requests, reader.msg.id)]
           ELSE [reader EXCEPT !.pc = "read", !.msg = NoMsg]
    /\ UNCHANGED <<run_vars, server_vars, process, running, server_info, life, stop_pc, stdin_stream,
                   peer_vars, client_vars, hist_vars>>

\* line 152: queue.put(message); a put on the Queue of a call that has left
\* goes to an object nothing reads
HandlePut ==
    /\ reader.pc = "put"
    /\ queue' = IF InFlight(reader.q)
                  THEN [queue EXCEPT ![reader.q] = Append(@, reader.msg)]
                  ELSE queue
    /\ reader' = [reader EXCEPT !.pc = "read", !.msg = NoMsg, !.q = "none"]
    /\ UNCHANGED <<run_vars, server_vars, process, running, next_id, pending_requests, server_info,
                   pc, request_id, loaded, response, outcome, life, stop_pc,
                   stdin_stream, peer_vars, hist_vars>>

ReadLoop == ReaderRead \/ ReaderEOF \/ HandleCheck \/ HandleLookup \/ HandlePut

\* ------------------------------------------------------------------ start

\* lines 53-61: subprocess.Popen, which raises when the command cannot run
StartSpawn ==
    /\ life = "created"
    /\ stop_pc = "none"
    /\ \/ process' = "running" /\ life' = "spawned"
       \/ process' = process /\ life' = "failed"
    /\ starts' = starts + 1
    /\ UNCHANGED <<stdin_full, server_vars, running, server_info, stop_pc, reader, stdin_stream,
                   peer_vars, client_vars, hist_vars>>

\* lines 64-66: self.running = True; the reader thread starts, or
\* Thread.start() raises (no thread can be started) and leaves
\* self.reader_thread a thread that was never started
StartReader ==
    /\ life = "spawned"
    /\ running' = TRUE
    /\ \/ reader' = [reader EXCEPT !.pc = "read"] /\ life' = "handshake"
       \/ reader' = [reader EXCEPT !.pc = "unstarted"] /\ life' = "failed"
    /\ UNCHANGED <<run_vars, server_vars, process, server_info, stop_pc, stdin_stream, peer_vars,
                   client_vars, hist_vars>>

\* lines 252-267: _send_request("initialize") has ended; its exception leaves
\* start(), its result is stored
InitializeReturn ==
    /\ life = "handshake"
    /\ pc["main"] = "done"
    /\ IF outcome["main"] = "result"
         THEN server_info' = "set" /\ life' = "notify"
         ELSE server_info' = server_info /\ life' = "failed"
    /\ UNCHANGED <<run_vars, server_vars, process, running, stop_pc, reader, stdin_stream, peer_vars,
                   client_vars, hist_vars>>

\* line 274 and _send_notification, lines 232-246: the initialized
\* notification; the write raises when the peer has exited
SendInitialized ==
    /\ life = "notify"
    /\ IF process = "running"
         THEN /\ stdin_stream' =
                   WriteLine(stdin_stream, Notification("notifications/initialized"))
              /\ life' = "ready"
         ELSE /\ stdin_stream' = stdin_stream
              /\ life' = "failed"
    /\ UNCHANGED <<run_vars, server_vars, process, running, server_info, stop_pc, reader, peer_vars,
                   client_vars, hist_vars>>

Start == StartSpawn \/ StartReader \/ InitializeReturn \/ SendInitialized

\* ------------------------------------------------------------------- stop

\* line 84: self.running = False.  stop() is called before start(), after
\* start() has returned, or after start() has raised.
StopBegin ==
    /\ stop_pc = "none"
    /\ life \in {"created", "ready", "failed"}
    /\ running' = FALSE
    /\ stop_pc' = "terminate"
    /\ blocked_at_stop' = {c \in Threads : pc[c] = "wait" /\ queue[c] = <<>>}
    /\ UNCHANGED <<run_vars, server_vars, process, server_info, life, reader, stdin_stream, peer_vars,
                   client_vars, first_seen>>

\* lines 86-89: there is no process; or terminate() has asked the peer to
\* exit and wait(timeout=5) returns, the peer has exited within the grace
\* period (PeerExit is its exit)
StopTerminate ==
    /\ stop_pc = "terminate"
    /\ process # "running"
    /\ stop_pc' = "join"
    /\ UNCHANGED <<run_vars, server_vars, process, running, server_info, life,
                   reader, stdin_stream, peer_vars, client_vars, hist_vars>>

\* A kill that the peer survives.
KillIgnored == "running"

\* lines 92-93: after kill() and wait() the peer has exited
AfterKill == "exited"

\* lines 87-93: terminate(); wait raised TimeoutExpired, the peer has not
\* exited within the grace period: kill() and wait()
StopKill ==
    /\ stop_pc = "terminate"
    /\ process = "running"
    /\ process' = AfterKill
    /\ stop_pc' = "join"
    /\ UNCHANGED <<run_vars, server_vars, running, server_info, life, reader,
                   stdin_stream, peer_vars, client_vars, hist_vars>>

\* lines 95-96: reader_thread.join(timeout=2) returns, the reader ended or
\* not; join raises RuntimeError on a thread that was never started
StopJoin ==
    /\ stop_pc = "join"
    /\ stop_pc' = IF reader.pc = "unstarted" THEN "raised" ELSE "done"
    /\ UNCHANGED <<run_vars, server_vars, process, running, server_info, life, reader, stdin_stream,
                   peer_vars, client_vars, hist_vars>>

Stop == StopBegin \/ StopTerminate \/ StopKill \/ StopJoin

\* start() called again on a client that was stopped, lines 53-66: a new peer
\* process with new pipes, and a new reader thread
StartAgain ==
    /\ stop_pc = "done"
    /\ life \in {"ready", "failed"}
    /\ reader.pc \in {"idle", "break", "eof", "error"}
    /\ pc["main"] \in {"idle", "done"}
    /\ starts < MaxStarts
    /\ starts' = starts + 1
    /\ process' = "running"
    /\ life' = "spawned"
    /\ stop_pc' = "none"
    /\ stdin_stream' = <<>>
    /\ stdout_stream' = <<>>
    /\ pc' = [pc EXCEPT !["main"] = "idle"]
    /\ outcome' = [outcome EXCEPT !["main"] = "none"]
    /\ response' = [response EXCEPT !["main"] = NoMsg]
    /\ UNCHANGED <<server_vars, stdin_full, running, server_info, reader, sent,
                   next_id, pending_requests, queue, request_id, loaded,
                   hist_vars>>

\* stop() called again on a client that was stopped, line 84
StopAgain ==
    /\ stop_pc = "done"
    /\ running' = FALSE
    /\ stop_pc' = "terminate"
    /\ UNCHANGED <<run_vars, server_vars, process, server_info, life, reader,
                   stdin_stream, peer_vars, client_vars, hist_vars>>

\* --------------------------------------------------------------- the peer

\* Index of the first line terminator of the stream (0: none)
FirstNL(s) ==
    IF \E i \in 1..Len(s) : s[i] = NL
      THEN CHOOSE i \in 1..Len(s) : s[i] = NL /\ \A j \in 1..(i - 1) : s[j] # NL
      ELSE 0

\* The Calls among the complete lines of the stream: a line is the chunks
\* before a line terminator, and it is a Call when it is one Call object.
RECURSIVE CallsOf(_)
CallsOf(s) ==
    LET i == FirstNL(s)
    IN IF i = 0 THEN {}
       ELSE (IF i = 2 /\ s[1].type = "call" THEN {s[1]} ELSE {})
            \cup CallsOf(SubSeq(s, i + 1, Len(s)))

\* mcp_server.py run(), lines 343-351: the Calls the peer has been sent
PeerSeen == CallsOf(stdin_stream)

MayWrite ==
    /\ process = "running"
    /\ sent < MaxSent
    /\ Len(stdout_stream) < MaxInbound

\* mcp_server.py lines 362-365: the peer writes the Reply to a Call it has
\* read: a result or an error, carrying the Call's id.  The order of the
\* replies, and how many times one Call is answered, are the peer's choice.
PeerReply ==
    /\ MayWrite
    /\ \E req \in PeerSeen, kind \in {"result", "error"} :
         stdout_stream' = Append(stdout_stream, Reply(req.id, kind, req.val))
    /\ sent' = sent + 1
    /\ UNCHANGED <<run_vars, server_vars, process, running, server_info, life, stop_pc, reader,
                   stdin_stream, client_vars, hist_vars>>

\* Other lines a peer writes: text that is not JSON, bytes that are not
\* text, JSON that is not an object, a notification (mcp_server.py lines
\* 262-269), the parse-error Reply with id null (lines 354-359), and a Call of
\* its own that carries the id of a Call it has read.
OtherLines ==
    {Malformed, Undecodable, NonObject, Notification("notifications/message"),
     Reply(0, "error", "none")}
    \cup {Msg("call", req.id, "ping", "none", "none") : req \in PeerSeen}

PeerOther ==
    /\ MayWrite
    /\ \E m \in OtherLines : stdout_stream' = Append(stdout_stream, m)
    /\ sent' = sent + 1
    /\ UNCHANGED <<run_vars, server_vars, process, running, server_info, life, stop_pc, reader,
                   stdin_stream, client_vars, hist_vars>>

\* The peer process exits on its own.
PeerExit ==
    /\ process = "running"
    /\ process' = "exited"
    /\ UNCHANGED <<run_vars, server_vars, running, server_info, life, stop_pc, reader, stdin_stream,
                   peer_vars, client_vars, hist_vars>>

Peer == PeerReply \/ PeerOther \/ PeerExit

\* The peer stops reading its stdin and the pipe fills up.
PeerStall ==
    /\ process = "running"
    /\ ~stdin_full
    /\ stdin_full' = TRUE
    /\ UNCHANGED <<starts, server_vars, process, running, server_info, life,
                   stop_pc, reader, stdin_stream, peer_vars, client_vars,
                   hist_vars>>

\* ---------------------------------------------------------- mcp_server.py

\* class ErrorCode, lines 26-32
PARSE_ERROR == -32700
INVALID_REQUEST == -32600
METHOD_NOT_FOUND == -32601
INVALID_PARAMS == -32602
INTERNAL_ERROR == -32603

\* A method table that also knows "ghost".
methods_and_ghost ==
    {"initialize", "tools/list", "tools/call", "resources/list",
     "resources/read", "prompts/list", "prompts/get", "ghost"}

\* self.methods, lines 78-86
methods ==
    {"initialize", "tools/list", "tools/call", "resources/list",
     "resources/read", "prompts/list", "prompts/get"}

\* A registry in which every name is registered.
AnyRegistered(arg) == TRUE

\* lines 152, 192, 221: the name is a key of self.tool_handlers,
\* self.resource_handlers or self.prompt_handlers.  create_example_server
\* registers the names that "known" stands for.
Registered(arg) == arg = "known"

\* How a call of self.methods[method] ends.  out is "return", "ValueError" or
\* "Exception"; inner is the registered handler it invoked ("tool",
\* "resource", "prompt" or "none") and inner_out how that one ended; message
\* and about are the fixed text and the interpolated value of str(e); detail
\* is str(e) of any other fault.
Outcome(out, inner, inner_out, message, about) ==
    [out |-> out, inner |-> inner, inner_out |-> inner_out,
     message |-> message, about |-> about]

Returns(inner, inner_out) == Outcome("return", inner, inner_out, "none", "none")

\* params.get on params that are not an object: AttributeError
BadParams == Outcome("Exception", "none", "none", "fault", "none")

\* lines 116-232: the handlers of the method table.  A registered tool,
\* resource or prompt handler returns or raises; _handle_tools_call catches
\* what its tool handler raises (lines 170-180), the other two let it through.
HandlerOutcomes(request) ==
    LET m == request.method
        a == request.arg
        through(inner, text) ==
            IF a = "bad" THEN {BadParams}
            ELSE IF ~Registered(a)
              THEN {Outcome("ValueError", "none", "none", text, a)}
            ELSE {Returns(inner, "return"),
                  Outcome("ValueError", inner, "ValueError", "invalid", "none"),
                  Outcome("Exception", inner, "Exception", "fault", "none")}
    IN  IF m = "initialize"
          THEN (IF a = "bad" THEN {BadParams} ELSE {Returns("none", "none")})
        ELSE IF m \in {"tools/list", "resources/list", "prompts/list"}
          THEN {Returns("none", "none")}
        ELSE IF m = "tools/call"
          THEN (IF a = "bad" THEN {BadParams}
                ELSE IF ~Registered(a)
                  THEN {Outcome("ValueError", "none", "none",
                                "Tool not found: ", a)}
                ELSE {Returns("tool", "return"), Returns("tool", "Exception")})
        ELSE IF m = "resources/read"
          THEN through("resource", "Resource not found: ")
        ELSE through("prompt", "Prompt not found: ")

\* lines 234-251: message is the text of the message, about the value its
\* f-string interpolates, data the payload of error["data"] ("none": no data)
create_error_response(id, code, message, about, data) ==
    [Reply(id, "error", "none") EXCEPT
        !.error = [code |-> code, message |-> message, about |-> about,
                   data |-> data]]

\* lines 253-260
create_success_response(id, result) == Reply(id, "result", result)

\* A write that puts the message before what was written earlier.
WriteFirst(stream, message) == <<message>> \o stream

\* lines 271-276: _write_message writes the message and its line terminator
\* to sys.stdout and flushes (one chunk of the stream stands for the line)
write_message(stream, message) == Append(stream, message)

\* A test that takes every message for a Call.
NeverNotification(request) == FALSE

\* line 285: is_notification = request_id is None
IsNotification(request) == ~HasId(request)

\* A mapping that reports every fault of a handler as INTERNAL_ERROR.
AlwaysInternal(out) == INTERNAL_ERROR

\* lines 317-335: except ValueError: INVALID_PARAMS; except Exception:
\* INTERNAL_ERROR
CodeOf(out) == IF out = "ValueError" THEN INVALID_PARAMS ELSE INTERNAL_ERROR

\* A router that calls no handler for a message without an id.
DispatchedCallsOnly(request) ==
    /\ HasId(request)
    /\ request.method # "notifications/initialized"
    /\ request.method \in methods

\* lines 291, 296, 309-310: handle_request calls self.methods[method]
Dispatched(request) ==
    request.method # "notifications/initialized" /\ request.method \in methods

\* lines 278-335: the response to a decoded object, o being how the handler
\* ended; NoMsg is None
handle_request(request, o) ==
    IF request.method = "notifications/initialized" THEN NoMsg
    ELSE IF request.method \notin methods
      THEN IF IsNotification(request) THEN NoMsg
           ELSE create_error_response(request.id, METHOD_NOT_FOUND,
                                      "Method not found: ", request.method,
                                      request.method)
    ELSE IF IsNotification(request) THEN NoMsg
    ELSE IF o.out = "return"
      THEN create_success_response(request.id, request.val)
    ELSE IF o.out = "ValueError"
      THEN create_error_response(request.id, CodeOf(o.out), o.message,
                                 o.about, "none")
    ELSE create_error_response(request.id, CodeOf(o.out),
                               "Internal server error", "none", o.message)

\* The handlers a dispatch runs, in order: the method's and the registered
\* handler it invoked.
Invocations(request, o) ==
    <<[handler |-> request.method, out |-> o.out]>>
    \o (IF o.inner = "none" THEN <<>>
        ELSE <<[handler |-> o.inner, out |-> o.inner_out]>>)

\* sys.stdin of the server: what it has not consumed yet
Unread == SubSeq(stdin_stream, server_pos + 1, Len(stdin_stream))

\* line 343: a complete line is there
HasLine == FirstNL(Unread) # 0

\* line 343: the chunks of the next line
Line == SubSeq(Unread, 1, FirstNL(Unread) - 1)

\* lines 344-351: json.loads(line); a line of several objects is not JSON
Decoded == IF Len(Line) = 1 THEN Line[1] ELSE Malformed

\* A JSON object: a Call, a Notification or a Reply
IsObject(m) == m.type \in {"call", "notification", "reply"}

\* Number of lines of a stream
Lines(stream) == Cardinality({i \in 1..Len(stream) : stream[i] = NL})

\* lines 343-346: an empty line is skipped
ServerBlank ==
    /\ process = "running"
    /\ HasLine
    /\ Len(Line) = 0
    /\ server_pos' = server_pos + 1
    /\ UNCHANGED <<run_vars, process, running, server_info, life, stop_pc, reader,
                   stdin_stream, peer_vars, client_vars, hist_vars, api,
                   initialized, invoked>>

\* lines 350-360: json.loads raises JSONDecodeError; the server writes the
\* PARSE_ERROR reply with id None and goes on
ServerParseError ==
    /\ process = "running"
    /\ HasLine
    /\ Len(Line) > 0
    /\ Decoded.type = "malformed"
    /\ stdout_stream' =
         write_message(stdout_stream,
                       create_error_response(0, PARSE_ERROR, "Parse error",
                                             "none", "none"))
    /\ sent' = sent + 1
    /\ server_pos' = server_pos + Len(Line) + 1
    /\ UNCHANGED <<run_vars, process, running, server_info, life, stop_pc, reader,
                   stdin_stream, client_vars, hist_vars, api, initialized,
                   invoked>>

\* lines 362, 280: request.get on a value that is not an object raises
\* AttributeError, outside the try of handle_request; lines 369-371 log it
\* and sys.exit(1)
ServerFatal ==
    /\ process = "running"
    /\ HasLine
    /\ Len(Line) > 0
    /\ Decoded.type = "nonobject"
    /\ process' = "exited"
    /\ server_pos' = server_pos + Len(Line) + 1
    /\ UNCHANGED <<run_vars, running, server_info, life, stop_pc, reader, stdin_stream,
                   peer_vars, client_vars, hist_vars, api, initialized,
                   invoked>>

\* lines 362-365: response = self.handle_request(request); it is written
\* when it is not None
ServerHandle ==
    /\ process = "running"
    /\ HasLine
    /\ Len(Line) > 0
    /\ IsObject(Decoded)
    /\ \E o \in (IF Dispatched(Decoded) THEN HandlerOutcomes(Decoded)
                 ELSE {Returns("none", "none")}) :
         LET reply == handle_request(Decoded, o)
         IN  /\ IF reply # NoMsg
                  THEN /\ stdout_stream' = write_message(stdout_stream, reply)
                       /\ sent' = sent + 1
                  ELSE UNCHANGED peer_vars
             /\ invoked' = IF Dispatched(Decoded)
                             THEN invoked \o Invocations(Decoded, o)
                             ELSE invoked
             /\ initialized' =
                  (initialized \/ (Dispatched(Decoded)
                                   /\ Decoded.method = "initialize"
                                   /\ o.out = "return"))
    /\ server_pos' = server_pos + Len(Line) + 1
    /\ UNCHANGED <<run_vars, process, running, server_info, life, stop_pc, reader,
                   stdin_stream, client_vars, hist_vars, api>>

\* The lines a client of the server writes, id being the id of a Call
ServerInputs(id) ==
    {WithParams(Msg("call", id, m, "none", "client"), "none") :
        m \in {"initialize", "tools/list", "ghost", "notifications/initialized"}}
    \cup {WithParams(Msg("call", id, m, "none", "client"), a) :
        m \in {"tools/call", "resources/read"}, a \in {"known", "unknown"}}
    \cup {WithParams(Msg("call", id, m, "none", "client"), "bad") :
        m \in {"initialize", "tools/list", "tools/call"}}
    \cup {Notification(m) :
        m \in {"notifications/initialized", "ping", "tools/list",
               "initialize"}}
    \cup {WithParams(Notification(m), a) :
        m \in {"tools/call", "resources/read"}, a \in {"known"}}
    \cup {Malformed, NonObject}

\* line 343: a client writes one more line to the server's stdin: one of the
\* lines above, or an empty line
StdinLine ==
    /\ process = "running"
    /\ Lines(stdin_stream) < MaxLines
    /\ \/ \E m \in ServerInputs(Lines(stdin_stream) + 1) :
            stdin_stream' = WriteLine(stdin_stream, m)
       \/ stdin_stream' = Append(stdin_stream, NL)
    /\ UNCHANGED <<run_vars, process, running, server_info, life, stop_pc, reader,
                   peer_vars, client_vars, hist_vars, server_vars>>

Server == ServerBlank \/ ServerParseError \/ ServerFatal \/ ServerHandle

\* ------------------------------------------------------------------- Next

\* The whole life of a client: start(), the handshake, one application thread
\* calling at any time, stop(), and the peer.
LifeCallers == {"main", "t1"}

Next ==
    \/ \E c \in LifeCallers : SendRequest(c)
    \/ ReadLoop
    \/ Start
    \/ Stop
    \/ PeerReply
    \/ PeerExit

Spec == Init /\ [][Next]_vars

\* A client whose start() has returned: the handshake is complete and the
\* application threads call concurrently.
InitReady ==
    /\ process = "running"
    /\ running = TRUE
    /\ next_id = 2
    /\ pending_requests = <<>>
    /\ server_info = "set"
    /\ queue = [c \in Threads |-> <<>>]
    /\ pc = [c \in Threads |-> IF c = "main" THEN "done" ELSE "idle"]
    /\ request_id = [c \in Threads |-> IF c = "main" THEN 1 ELSE 0]
    /\ loaded = [c \in Threads |-> 0]
    /\ response = [c \in Threads |->
                     IF c = "main" THEN Reply(1, "result", "main") ELSE NoMsg]
    /\ outcome = [c \in Threads |-> IF c = "main" THEN "result" ELSE "none"]
    /\ life = "ready"
    /\ stop_pc = "none"
    /\ reader = [pc |-> "read", msg |-> NoMsg, q |-> "none"]
    /\ stdin_stream = <<Request(1, "initialize", "main"), NL,
                        Notification("notifications/initialized"), NL>>
    /\ stdout_stream = <<>>
    /\ sent = 0
    /\ first_seen = (1 :> Reply(1, "result", "main"))
    /\ blocked_at_stop = {}
    /\ api = [c \in AppCallers |-> AppCall]
    /\ server_pos = 4
    /\ initialized = TRUE
    /\ invoked = <<[handler |-> "initialize", out |-> "return"]>>
    /\ starts = 1
    /\ stdin_full = FALSE

NextCalls ==
    \/ \E c \in AppCallers : SendRequest(c)
    \/ ReadLoop
    \/ PeerReply
    \/ PeerExit

SpecCalls == InitReady /\ [][NextCalls]_vars

\* The same client with one application thread and a peer that also writes
\* lines that are no reply to a Call.
NextLines ==
    \/ SendRequest("t1")
    \/ ReadLoop
    \/ Peer

SpecLines == InitReady /\ [][NextLines]_vars

\* The same client with one application thread, stop() called at any time,
\* and a peer that may exit and may stop reading its stdin.
NextShutdown ==
    \/ SendRequest("t1")
    \/ ReadLoop
    \/ Stop
    \/ PeerReply
    \/ PeerExit
    \/ PeerStall

SpecShutdown == InitReady /\ [][NextShutdown]_vars

\* The steps of stop() after line 84: each of them returns or raises within
\* its time limit (wait(timeout=5), wait() after kill(), join(timeout=2)).
StopSteps == StopTerminate \/ StopKill \/ StopJoin

\* The threads are scheduled: the caller of _send_request (whose get at line
\* 211 returns or raises Empty within the timeout), the reader, and the caller
\* of stop() once it has begun.
FairShutdown ==
    /\ SpecShutdown
    /\ WF_vars(SendRequest("t1"))
    /\ WF_vars(ReadLoop)
    /\ WF_vars(StopSteps)

\* One client object used by one thread through any sequence of start() and
\* stop(): start() with its handshake, stop(), stop() again, start() again.
NextLife ==
    \/ SendRequest("main")
    \/ ReadLoop
    \/ Start
    \/ Stop
    \/ StartAgain
    \/ StopAgain
    \/ PeerReply
    \/ PeerExit

SpecLife == Init /\ [][NextLife]_vars

\* An application thread whose call has ended calls _send_request again:
\* the locals of the new invocation are fresh.
CallAgain(c) ==
    /\ pc[c] = "done"
    /\ Lines(stdin_stream) < MaxCalls + 2
    /\ pc' = [pc EXCEPT ![c] = "idle"]
    /\ request_id' = [request_id EXCEPT ![c] = 0]
    /\ response' = [response EXCEPT ![c] = NoMsg]
    /\ outcome' = [outcome EXCEPT ![c] = "none"]
    /\ UNCHANGED <<run_vars, server_vars, process, running, next_id,
                   pending_requests, server_info, queue, loaded, life, stop_pc,
                   reader, stdin_stream, peer_vars, hist_vars>>

\* The steps of _send_request while the peer is up and silent: the call ends
\* by its timeout.
SilentSteps(c) ==
    \/ Enter(c)
    \/ LoadNextId(c)
    \/ StoreNextId(c)
    \/ Register(c)
    \/ WriteRequest(c)
    \/ Timeout(c)
    \/ Expire(c)
    \/ FinallyCheck(c)
    \/ FinallyDel(c)

\* A ready client whose application threads call one call after another; the
\* handshake has written two lines.
NextIds == \E c \in AppCallers : SilentSteps(c) \/ CallAgain(c)

SpecIds == InitReady /\ [][NextIds]_vars

\* The calls of the high-level API, lines 278-349, on names that are
\* registered on the server or not, and a _send_request of a method the
\* server does not have.
ApiCalls ==
    {[method |-> m, arg |-> "none"] :
        m \in {"tools/list", "resources/list", "prompts/list", "ghost"}}
    \cup {[method |-> m, arg |-> a] :
        m \in {"tools/call", "resources/read", "prompts/get"},
        a \in {"known", "unknown"}}

\* A client whose start() has returned, connected to mcp_server.py, and one
\* application thread that makes one of the calls above.
InitEndToEnd ==
    /\ process = "running"
    /\ running = TRUE
    /\ next_id = 2
    /\ pending_requests = <<>>
    /\ server_info = "set"
    /\ queue = [c \in Threads |-> <<>>]
    /\ pc = [c \in Threads |-> IF c = "main" THEN "done" ELSE "idle"]
    /\ request_id = [c \in Threads |-> IF c = "main" THEN 1 ELSE 0]
    /\ loaded = [c \in Threads |-> 0]
    /\ response = [c \in Threads |->
                     IF c = "main" THEN Reply(1, "result", "main") ELSE NoMsg]
    /\ outcome = [c \in Threads |-> IF c = "main" THEN "result" ELSE "none"]
    /\ life = "ready"
    /\ stop_pc = "none"
    /\ reader = [pc |-> "read", msg |-> NoMsg, q |-> "none"]
    /\ stdin_stream = <<Request(1, "initialize", "main"), NL,
                        Notification("notifications/initialized"), NL>>
    /\ stdout_stream = <<>>
    /\ sent = 0
    /\ first_seen = (1 :> Reply(1, "result", "main"))
    /\ blocked_at_stop = {}
    /\ \E a \in ApiCalls : api = [c \in AppCallers |-> a]
    /\ server_pos = 4
    /\ initialized = TRUE
    /\ invoked = <<[handler |-> "initialize", out |-> "return"]>>
    /\ starts = 1
    /\ stdin_full = FALSE

\* The steps of _send_request while the peer is up and the timeout of line
\* 211 has not elapsed.
CallerSteps(c) ==
    \/ Enter(c)
    \/ LoadNextId(c)
    \/ StoreNextId(c)
    \/ Register(c)
    \/ WriteRequest(c)
    \/ GetResponse(c)
    \/ FinallyCheck(c)
    \/ FinallyDel(c)

\* The steps of _read_loop while the peer is up.
ReaderSteps == ReaderRead \/ HandleCheck \/ HandleLookup \/ HandlePut

\* One call from end to end: the caller, the reader thread and the server,
\* in a session in which the server stays up and the caller does not give up
\* before its reply.
NextEndToEnd ==
    \/ CallerSteps("t1")
    \/ ReaderSteps
    \/ ServerHandle

SpecEndToEnd == InitEndToEnd /\ [][NextEndToEnd]_vars

\* The caller thread, the reader thread and the server process are each
\* scheduled: a step that stays possible is taken.
FairEndToEnd ==
    /\ SpecEndToEnd
    /\ WF_vars(CallerSteps("t1"))
    /\ WF_vars(ReaderSteps)
    /\ WF_vars(ServerHandle)

\* mcp_server.py run() alone, started by some client that writes lines to its
\* stdin: the MCPClient of this module stays as constructed.
InitServer ==
    /\ process = "running"
    /\ running = FALSE
    /\ next_id = 1
    /\ pending_requests = <<>>
    /\ server_info = "none"
    /\ queue = [c \in Threads |-> <<>>]
    /\ pc = [c \in Threads |-> "idle"]
    /\ request_id = [c \in Threads |-> 0]
    /\ loaded = [c \in Threads |-> 0]
    /\ response = [c \in Threads |-> NoMsg]
    /\ outcome = [c \in Threads |-> "none"]
    /\ life = "created"
    /\ stop_pc = "none"
    /\ reader = [pc |-> "idle", msg |-> NoMsg, q |-> "none"]
    /\ stdin_stream = <<>>
    /\ stdout_stream = <<>>
    /\ sent = 0
    /\ first_seen = <<>>
    /\ blocked_at_stop = {}
    /\ api = [c \in AppCallers |-> AppCall]
    /\ server_pos = 0
    /\ initialized = FALSE
    /\ invoked = <<>>
    /\ starts = 0
    /\ stdin_full = FALSE

NextServer == StdinLine \/ Server

SpecServer == InitServer /\ [][NextServer]_vars

\* The two programs, each in a session of its own: mcp_server.py reading the
\* lines some client writes, and a ready MCPClient with one application
\* thread reading the lines some peer writes.
InitParse == InitServer \/ InitReady

\* The session is the server's: the MCPClient of the module stays as
\* constructed.
ServerSession == life = "created"

\* The session is the client's: its start() has returned.
ClientSession == life = "ready"

\* The steps of NextServer in the one session, those of NextLines in the
\* other.
NextParse ==
    \/ ServerSession /\ StdinLine
    \/ ServerSession /\ ServerBlank
    \/ ServerSession /\ ServerParseError
    \/ ServerSession /\ ServerFatal
    \/ ServerSession /\ ServerHandle
    \/ ClientSession /\ Enter("t1")
    \/ ClientSession /\ LoadNextId("t1")
    \/ ClientSession /\ StoreNextId("t1")
    \/ ClientSession /\ Register("t1")
    \/ ClientSession /\ WriteRequest("t1")
    \/ ClientSession /\ WriteFailed("t1")
    \/ ClientSession /\ GetResponse("t1")
    \/ ClientSession /\ Timeout("t1")
    \/ ClientSession /\ Expire("t1")
    \/ ClientSession /\ FinallyCheck("t1")
    \/ ClientSession /\ FinallyDel("t1")
    \/ ClientSession /\ ReaderRead
    \/ ClientSession /\ ReaderEOF
    \/ ClientSession /\ HandleCheck
    \/ ClientSession /\ HandleLookup
    \/ ClientSession /\ HandlePut
    \/ ClientSession /\ PeerReply
    \/ ClientSession /\ PeerOther
    \/ ClientSession /\ PeerExit

SpecParse == InitParse /\ [][NextParse]_vars

\* ------------------------------------------------------------- properties

\* _send_request has returned a result or raised the server's error
Answered(c) == pc[c] = "done" /\ outcome[c] \in {"result", "server_error"}

\* No other call has drawn the id of c's call
OnlyCallWithItsId(c) == \A d \in Threads \ {c} : request_id[d] # request_id[c]

\* C1: a call that ends with a reply has consumed a message whose id is its
\* own request id, and when no other call drew that id, the reply is the
\* peer's answer to that very call (it carries the caller's own payload),
\* whatever the order in which the replies arrived.
C1_OwnReply ==
    \A c \in Threads :
        Answered(c) =>
            /\ response[c].id = request_id[c]
            /\ (OnlyCallWithItsId(c) /\ response[c].type = "reply")
                 => response[c].val = c

\* t2, whose Call was written after t1's, has its own answer, while the
\* reply to t1 arrives after it: the reader is about to deliver it.
C1_Witness ==
    /\ request_id["t1"] = 2
    /\ request_id["t2"] = 3
    /\ Len(stdin_stream) = 8
    /\ stdin_stream[5] = Request(2, "app", "t1")
    /\ stdin_stream[7] = Request(3, "app", "t2")
    /\ Answered("t2")
    /\ response["t2"] = Reply(3, "result", "t2")
    /\ pc["t1"] = "wait"
    /\ queue["t1"] = <<>>
    /\ reader.pc = "put"
    /\ reader.q = "t1"
    /\ reader.msg = Reply(2, "result", "t1")

\* _send_request has left through the timeout branch (lines 212-214)
TimedOut(c) ==
    /\ pc[c] = "done"
    /\ response[c] = NoMsg
    /\ outcome[c] \in {"timeout", "timeout_key_error", "key_error"}

\* C2: the caller of an id observes the first message carrying that id that
\* reached the reader and no later one, and an id never reports two
\* different outcomes to its callers.
C2_FirstReplyOnly ==
    \A c \in Threads :
        Answered(c) =>
            /\ request_id[c] \in DOMAIN first_seen
            /\ response[c] = first_seen[request_id[c]]
            /\ \A d \in Threads :
                  (Answered(d) /\ request_id[d] = request_id[c])
                  => response[d] = response[c]

\* C3: a call that got no reply within its timeout raises TimeoutError, its
\* id is not a key of pending_requests afterwards, and no message carrying
\* its id reaches the queue of another call.
C3_TimeoutDropsLateReply ==
    \A c \in Threads :
        TimedOut(c) =>
            /\ outcome[c] = "timeout"
            /\ request_id[c] \notin DOMAIN pending_requests
            /\ \A d \in Threads \ {c} :
                  /\ response[d].id # request_id[c]
                  /\ \A i \in 1..Len(queue[d]) : queue[d][i].id # request_id[c]

\* Every key of pending_requests is the id of a call that is in flight.
PendingOnlyInFlight ==
    \A k \in DOMAIN pending_requests :
        \E c \in Threads : InFlight(c) /\ request_id[c] = k

\* The step in which _send_request leaves, leaves its id out of the table.
RemovedOnReturn ==
    \A c \in Threads :
        (pc[c] # "done" /\ pc'[c] = "done")
        => request_id[c] \notin DOMAIN pending_requests'

\* C4: when _send_request returns or raises, its request id is not a key of
\* pending_requests, and the table holds only ids of calls still in flight.
C4_RemovedOnReturn == []PendingOnlyInFlight /\ [][RemovedOnReturn]_vars

\* t1 has raised its timeout and is out of the table, which holds the id of
\* t2 alone, still blocked.
C4_Witness ==
    /\ pc["t1"] = "done"
    /\ outcome["t1"] = "timeout"
    /\ pc["t2"] = "wait"
    /\ request_id["t1"] # request_id["t2"]
    /\ DOMAIN pending_requests = {request_id["t2"]}

\* The call of c has drawn its id and has not left _send_request.
HasDrawnId(c) == pc[c] \in {"load", "store", "register"} \/ InFlight(c)

\* C5: calls in flight at the same time have different ids, and each call
\* that has registered waits on its own slot.
C5_DistinctIdsOwnSlot ==
    /\ \A c, d \in Threads :
          (c # d /\ HasDrawnId(c) /\ HasDrawnId(d))
          => request_id[c] # request_id[d]
    /\ \A c \in Threads :
          pc[c] \in {"write", "wait"}
          => /\ request_id[c] \in DOMAIN pending_requests
             /\ pending_requests[request_id[c]] = c

\* Every message in the stream is followed by its line terminator.
WholeLines(s) ==
    /\ Len(s) % 2 = 0
    /\ \A i \in 1..Len(s) : (s[i] = NL) <=> (i % 2 = 0)

C7_StopFailsBlockedCalls ==
    \A c \in blocked_at_stop :
        /\ pc[c] # "expire"
        /\ stop_pc = "done" => (pc[c] # "wait" \/ queue[c] # <<>>)

\* C8: when the reader loop has ended on the closed inbound stream, every
\* slot still in pending_requests has been given a connection-closed error.
C8_EofDrainsPending ==
    reader.pc = "eof" =>
        \A k \in DOMAIN pending_requests :
            \E i \in 1..Len(queue[pending_requests[k]]) :
                queue[pending_requests[k]][i].kind = "connection_closed"

\* The handshake is complete: start() has returned.
HandshakeDone == life = "ready"

\* C9: an application-level call is accepted, and its Call written, only
\* when the handshake is complete.
C9_NoCallBeforeReady ==
    \A c \in AppCallers :
        /\ (pc[c] \notin {"idle", "done"}) => HandshakeDone
        /\ (\E i \in 1..Len(stdin_stream) :
               stdin_stream[i].type = "call" /\ stdin_stream[i].val = c)
           => HandshakeDone

\* start() has raised because the initialize reply was an error or did not
\* arrive in time.
HandshakeFailed ==
    /\ life = "failed"
    /\ pc["main"] = "done"
    /\ outcome["main"] \in {"server_error", "timeout"}

\* An application-level call made after the handshake failed is rejected.
RejectedAfterFailure ==
    \A c \in AppCallers :
        (HandshakeFailed /\ pc[c] = "idle" /\ pc'[c] # "idle")
        => (pc'[c] = "done" /\ outcome'[c] = "not_connected")

\* When the initialize call has failed the client is not ready.
FailedNeverReady ==
    (pc["main"] = "done" /\ outcome["main"] \in {"server_error", "timeout"})
    => life \in {"handshake", "failed"}

\* C10: when the initialize reply is an error or does not arrive in time,
\* start() raises, the client never becomes ready, and every later
\* application-level call is rejected, not sent.
C10_FailedHandshakeRejects == []FailedNeverReady /\ [][RejectedAfterFailure]_vars

\* C15: in the reader loop a line that cannot be decoded, or whose handling
\* raises, never stops the loop: while the client runs and the peer is up,
\* the reader thread is in its loop, so that a valid reply that follows a bad
\* line is still delivered to its caller.
C15_ReaderSurvivesBadLines ==
    (running /\ process = "running")
    => reader.pc \in {"read", "handle", "lookup", "put"}

\* The call of c leaves line 211 by its timeout and deletes its slot.
TimesOut(c) == pc[c] = "expire" /\ pc'[c] = "finally"

\* The queue that the table holds for the id of d's call ("none": no slot).
SlotOf(d, table) ==
    IF request_id[d] \in DOMAIN table THEN table[request_id[d]] ELSE "none"

\* The step in which one call times out leaves the slot and the queue of
\* every other call in flight, the reader thread and the connection as they
\* are.
TimeoutIsLocal ==
    \A c \in Threads :
        TimesOut(c) =>
            /\ \A d \in Threads \ {c} :
                  InFlight(d) =>
                      /\ SlotOf(d, pending_requests') = SlotOf(d, pending_requests)
                      /\ queue'[d] = queue[d]
            /\ reader' = reader
            /\ process' = process
            /\ running' = running

\* C19: a timeout is local to one call: when one _send_request times out,
\* the slots of all other calls in flight are unchanged, so that those calls
\* still receive their own replies, and the reader loop and the connection
\* keep running.
C19_TimeoutIsLocal == [][TimeoutIsLocal]_vars

\* _initialize is in _send_notification.
InSendNotification == life = "notify"

\* The step of _send_notification writes at most one line, a message without
\* an id, and leaves pending_requests and next_id as they are.
NotificationStep ==
    (InSendNotification /\ ~InSendNotification') =>
        /\ pending_requests' = pending_requests
        /\ next_id' = next_id
        /\ \/ /\ life' = "failed"
              /\ stdin_stream' = stdin_stream
           \/ /\ life' = "ready"
              /\ Len(stdin_stream') = Len(stdin_stream) + 2
              /\ ~HasId(stdin_stream'[Len(stdin_stream) + 1])
              /\ stdin_stream'[Len(stdin_stream) + 1].type = "notification"
              /\ stdin_stream'[Len(stdin_stream) + 2] = NL
              /\ SubSeq(stdin_stream', 1, Len(stdin_stream)) = stdin_stream

\* C20: _send_notification writes one message without an id and creates no
\* slot: pending_requests and next_id are the same before and after it,
\* whether the write succeeds or fails.
C20_NotificationNoSlot == [][NotificationStep]_vars

\* _send_notification has written its line while the call of t1 is in
\* flight, and the slot of t1 is the only one.
C20_Witness ==
    /\ life = "ready"
    /\ pc["t1"] = "wait"
    /\ DOMAIN pending_requests = {request_id["t1"]}
    /\ stdin_stream[Len(stdin_stream) - 1] = Notification("notifications/initialized")

\* -------------------------------------------- properties from end to end

\* lines 220-225: the call has raised RuntimeError("Server error: {message}
\* (code: {code})") from the error object of its reply
RaisedServerError(c) == pc[c] = "done" /\ outcome[c] = "server_error"

\* The call to a method the server has not registered has ended with the
\* server's error -32601, whose message names the method.
EndedMethodNotFound(c) ==
    /\ RaisedServerError(c)
    /\ response[c].error.code = METHOD_NOT_FOUND
    /\ response[c].error.message = "Method not found: "
    /\ response[c].error.about = api[c].method

\* The call is to "ghost", the method of ApiCalls that the server has not
\* registered.
CallsGhost(c) == api[c].method = "ghost"

NamesUnregistered(c) ==
    api[c].method \in {"tools/call", "resources/read"} /\ api[c].arg = "unknown"

\* The call has ended with the server's error -32602.
EndedInvalidParams(c) ==
    /\ RaisedServerError(c)
    /\ response[c].error.code = INVALID_PARAMS

\* No tool or resource handler has run on the server.
NoRegisteredHandlerRan ==
    \A i \in 1..Len(invoked) : invoked[i].handler \notin {"tool", "resource"}

\* C18: a tools/call naming a tool that is not registered and a
\* resources/read naming a URI that is not registered never yield a success
\* result: the server replies with the error -32602 without invoking any
\* tool or resource handler, and the client call raises RuntimeError.
C18_UnregisteredNameEndToEnd ==
    /\ [](\A c \in AppCallers :
             NamesUnregistered(c)
             => /\ NoRegisteredHandlerRan
                /\ pc[c] = "done" => EndedInvalidParams(c))
    /\ (NamesUnregistered("t1") ~> EndedInvalidParams("t1"))

\* call_tool on a tool that is not registered has raised the server's error.
C18_Witness ==
    /\ api["t1"] = [method |-> "tools/call", arg |-> "unknown"]
    /\ EndedInvalidParams("t1")
    /\ response["t1"].error.message = "Tool not found: "

\* ------------------------------------------- properties of mcp_server.py

\* The server takes the line at the head of its stdin.
ServerStep == server_pos' # server_pos

\* What a step appends to the server's stdout.
Wrote == SubSeq(stdout_stream', Len(stdout_stream) + 1, Len(stdout_stream'))

\* The step on a Call whose method is not in the method table writes the
\* METHOD_NOT_FOUND reply and runs no handler.
UnknownMethodRejected ==
    (ServerStep /\ Decoded.type = "call" /\ Decoded.method \notin methods)
    => /\ Len(Wrote) = 1
       /\ Wrote[1].id = Decoded.id
       /\ Wrote[1].kind = "error"
       /\ Wrote[1].error.code = METHOD_NOT_FOUND
       /\ invoked' = invoked
       /\ initialized' = initialized

\* C11: for every Call whose method name is not in the server's method
\* table, handle_request returns an error reply with code -32601 and invokes
\* no handler: no state of the server changes.
C11_UnknownMethod == [][UnknownMethodRejected]_vars

\* The step on a Call writes one Reply, with the id of the Call and with a
\* result or an error, not both.
OneReplyPerCall ==
    (ServerStep /\ Decoded.type = "call")
    => /\ Len(Wrote) = 1
       /\ Wrote[1].type = "reply"
       /\ Wrote[1].id = Decoded.id
       /\ \/ Wrote[1].kind = "result" /\ Wrote[1].error = NoError
          \/ Wrote[1].kind = "error" /\ Wrote[1].error # NoError

\* C13: for every Call the server receives, whatever the method name, the
\* server writes exactly one reply, which carries the id of the Call and
\* exactly one of result and error.
C13_OneReplyPerCall == [][OneReplyPerCall]_vars

\* The step on a Notification writes nothing, leaves the server running and
\* leaves the following line at the head of its stdin.
NotificationSilent ==
    (ServerStep /\ Decoded.type = "notification")
    => /\ stdout_stream' = stdout_stream
       /\ process' = "running"
       /\ server_pos' = server_pos + 2

\* C14: for every well-formed message without an id, whether its method is
\* registered, is not registered, or has a handler that fails, the server
\* writes nothing back, stays running, and goes on to the following lines.
C14_NotificationSilent == [][NotificationSilent]_vars

\* The server has taken the notification "ping" and then answered the Call
\* on the following line.
C14_Witness ==
    /\ Len(stdin_stream) = 4
    /\ stdin_stream[1] = Notification("ping")
    /\ stdin_stream[3].type = "call"
    /\ server_pos = 4
    /\ process = "running"
    /\ Len(stdout_stream) = 1
    /\ stdout_stream[1].id = stdin_stream[3].id

\* C16: the main loop of the server recovers from every bad line, text that
\* is not JSON or JSON that is not an object: whatever lines it has taken,
\* the server is running, so that it answers the next well-formed Call.
C16_LoopRecovers == server_pos > 0 => process = "running"

\* The step on a Call to a registered method whose handler raised writes the
\* error reply of the fault and leaves the server running.
HandlerFaultReported ==
    (ServerStep /\ Decoded.type = "call" /\ Dispatched(Decoded))
    => LET out == invoked'[Len(invoked) + 1].out
       IN  /\ process' = "running"
           /\ out = "ValueError"
                => /\ Len(Wrote) = 1
                   /\ Wrote[1].id = Decoded.id
                   /\ Wrote[1].error.code = INVALID_PARAMS
           /\ out = "Exception"
                => /\ Len(Wrote) = 1
                   /\ Wrote[1].id = Decoded.id
                   /\ Wrote[1].error.code = INTERNAL_ERROR
                   /\ Wrote[1].error.message = "Internal server error"
                   /\ Wrote[1].error.about = "none"
                   /\ Wrote[1].error.data = "fault"

\* C17: for a Call to a registered method, a ValueError of the handler gives
\* the error reply -32602, any other fault of the handler the error reply
\* -32603 whose message is the fixed text and whose detail is in data only,
\* and in both cases the server keeps running.
C17_HandlerFaults == [][HandlerFaultReported]_vars

\* The server has answered one Call with -32602 and the next with -32603 and
\* is running.
C17_Witness ==
    /\ Len(stdout_stream) = 2
    /\ stdout_stream[1].error.code = INVALID_PARAMS
    /\ stdout_stream[2].error.code = INTERNAL_ERROR
    /\ server_pos = 4
    /\ process = "running"

\* C21: stop() always terminates, and when it returns the peer process has
\* exited (or there was none): after the request to terminate, stop() goes on
\* without a kill when the peer has exited within the grace period, and only a
\* peer that is still running then is killed, which ends it.
StopEnded == stop_pc \in {"done", "raised"}

KillOnlyRunning ==
    (stop_pc = "terminate" /\ stop_pc' = "join") =>
        /\ process' # "running"
        /\ process # "running" => process' = process

C21_StopTerminates ==
    /\ [](stop_pc = "done" => process # "running")
    /\ [][KillOnlyRunning]_vars
    /\ (stop_pc = "terminate") ~> StopEnded

\* stop() has returned on a client with a call in progress, the peer has
\* exited
C21_Witness ==
    /\ stop_pc = "done"
    /\ process = "exited"
    /\ pc["t1"] \notin {"idle", "done"}

\* C22: stop() is safe in every lifecycle state: before start(), after a
\* start() that failed at the spawn, at the start of the reader or in the
\* handshake, and a second time after a stop(), it completes without raising
\* and leaves no peer process running.
C22_StopSafeAnywhere ==
    /\ stop_pc # "raised"
    /\ stop_pc = "done" => process # "running"

\* C28: the lifecycle only moves forward: a client that stop() has been called
\* on is never started or ready again, and writes no call again.
Stopping == stop_pc # "none"

ForwardOnly ==
    Stopping =>
        /\ Stopping'
        /\ life' = life
        /\ CallsOf(stdin_stream') \subseteq CallsOf(stdin_stream)

C28_ForwardOnly == [][ForwardOnly]_vars

\* C23: a slot is removed from pending_requests at the moment it is resolved:
\* once the reader has delivered a reply for an id, the id is no longer a key
\* of the table, and no slot has two outcomes delivered to it.
Delivered(c) ==
    Len(queue[c]) + (IF pc[c] \in {"finally", "finally_del"} /\ response[c] # NoMsg
                       THEN 1 ELSE 0)

C23_RemovedWhenResolved ==
    \A c \in AppCallers :
        /\ Delivered(c) > 0 /\ InFlight(c) =>
               request_id[c] \notin DOMAIN pending_requests
        /\ Delivered(c) <= 1

\* C29: an inbound message with a method and an id is a Call: it is never
\* used to resolve a pending slot, even when its id is that of a call in
\* flight.
C29_InboundCallNotAReply ==
    \A c \in Threads :
        /\ response[c].type # "call"
        /\ \A i \in 1..Len(queue[c]) : queue[c][i].type # "call"

\* C24: every _send_request eventually returns or raises, whatever the
\* reader, stop() and the peer do: it blocks only until its slot is resolved
\* or its timeout elapses.
C24_CallEnds == (pc["t1"] # "idle") ~> (pc["t1"] = "done")

\* C25: the router checks that the params of a Call are a mapping before it
\* invokes the handler: for a Call to a registered method whose params are
\* not a mapping no handler runs and the reply is an error reply.
ParamsValidated ==
    (ServerStep /\ Decoded.type = "call" /\ Decoded.method \in methods
                /\ Decoded.arg = "bad")
    => /\ invoked' = invoked
       /\ Len(Wrote) = 1
       /\ Wrote[1].kind = "error"

C25_ParamsValidated == [][ParamsValidated]_vars

\* The step on a Notification whose method is in the method table runs the
\* handler of the method, with its effect on the server, writes nothing and
\* leaves the server running.
NotificationRunsHandler ==
    (ServerStep /\ Decoded.type = "notification" /\ Decoded.method \in methods)
    => /\ Len(invoked') > Len(invoked)
       /\ invoked'[Len(invoked) + 1].handler = Decoded.method
       /\ (Decoded.method = "initialize"
             /\ invoked'[Len(invoked) + 1].out = "return") => initialized'
       /\ stdout_stream' = stdout_stream
       /\ process' = "running"
       /\ server_pos' = server_pos + 2

\* C26: for a Notification whose method is registered the server still
\* invokes the handler, whose effects take place (a Notification named
\* initialize sets the initialized flag), while its result or exception is
\* discarded: nothing is written back and the loop goes on.
C26_NotificationRunsHandler == [][NotificationRunsHandler]_vars

\* The server has taken the Notification initialize, which set the flag and
\* wrote nothing, and then a Notification whose handler raised, and is
\* running.
C26_Witness ==
    /\ Len(stdin_stream) = 4
    /\ stdin_stream[1] = Notification("initialize")
    /\ server_pos = 4
    /\ initialized
    /\ Len(invoked) = 3
    /\ invoked[3].out = "Exception"
    /\ stdout_stream = <<>>
    /\ process = "running"

\* C27: the order of the handshake in start(): the reader loop is running
\* before the initialize Call is written; initialize is the first message the
\* client writes to the peer; the initialized Notification is written only
\* after the initialize Reply has been received, and it has been written
\* whenever start() has returned.
Written(m) == \E i \in 1..Len(stdin_stream) : stdin_stream[i] = m

InitializeWritten ==
    \E i \in 1..Len(stdin_stream) :
        stdin_stream[i].type = "call" /\ stdin_stream[i].method = "initialize"

C27_HandshakeOrder ==
    /\ InitializeWritten => reader.pc \notin {"idle", "unstarted"}
    /\ stdin_stream # <<>> =>
          stdin_stream[1].type = "call" /\ stdin_stream[1].method = "initialize"
    /\ Written(Notification("notifications/initialized")) =>
          outcome["main"] = "result"
    /\ life = "ready" => Written(Notification("notifications/initialized"))

\* C30: under any interleaving of concurrent callers next_id never
\* decreases, and every key of pending_requests is at least 1 and less than
\* next_id.
KeysBelowNextId == \A k \in DOMAIN pending_requests : k >= 1 /\ k < next_id

C30_IdsMonotone == [][next_id' >= next_id]_vars /\ []KeysBelowNextId

\* The number of lines the server has taken from its stdin.
Consumed == Lines(SubSeq(stdin_stream, 1, server_pos))

\* The replies to Calls on the server's stdout, in the order written (the
\* parse-error reply has id null and answers no Call).
RepliesInArrivalOrder ==
    \A i, j \in 1..Len(stdout_stream) :
        (i < j /\ stdout_stream[i].id # 0 /\ stdout_stream[j].id # 0)
            => stdout_stream[i].id < stdout_stream[j].id

\* A step of the server takes one line, writes at most one message, and the
\* reply it writes is the reply to the Call on the line it has just taken.
OneLineAtATime ==
    ServerStep =>
        /\ Consumed' = Consumed + 1
        /\ Len(stdout_stream') <= Len(stdout_stream) + 1
        /\ SubSeq(stdout_stream', 1, Len(stdout_stream)) = stdout_stream
        /\ (Len(Wrote) = 1 /\ Wrote[1].id # 0) =>
               /\ Decoded.type = "call"
               /\ Wrote[1].id = Decoded.id
               /\ Wrote[1].id = Consumed'

\* C31: the server handles its input lines one at a time in arrival order:
\* the reply to the Call on line k is written before line k+1 is read, so
\* the replies are on its output in the order in which the Calls they answer
\* were received.  (The id of a Call of SpecServer is the number of its line.)
C31_RepliesInOrder == []RepliesInArrivalOrder /\ [][OneLineAtATime]_vars

\* The server has answered the Calls of its first two lines, in that order.
C31_Witness ==
    /\ server_pos = 4
    /\ Len(stdout_stream) = 2
    /\ stdout_stream[1].id = 1
    /\ stdout_stream[2].id = 2
    /\ stdout_stream[1].kind = "error"
    /\ stdout_stream[2].kind = "result"

\* The step of the server on a line of text that is not JSON writes one
\* error reply with id null (0 stands for null) and code -32700 and runs no
\* handler.
IsParseErrorReply(w) ==
    /\ Len(w) = 1
    /\ w[1].type = "reply"
    /\ w[1].id = 0
    /\ w[1].kind = "error"
    /\ w[1].error.code = -32700

ParseErrorReported ==
    (ServerStep /\ Len(Line) > 0 /\ Decoded.type = "malformed")
    => /\ IsParseErrorReply(Wrote)
       /\ invoked' = invoked
       /\ initialized' = initialized
       /\ process' = "running"

\* The same of every line that is not JSON, the empty line included.
EveryBadLineReported ==
    (ServerStep /\ Decoded.type = "malformed")
    => /\ IsParseErrorReply(Wrote)
       /\ invoked' = invoked
       /\ initialized' = initialized
       /\ process' = "running"

\* A reply whose id is null
NullIdReply(m) == m.type = "reply" /\ m.id = 0

\* The step of the reader that classifies a reply whose id is null: it finds
\* no slot and goes on to the next line; no slot, queue or outcome changes.
NullIdMatchesNoSlot ==
    (reader.pc = "handle" /\ NullIdReply(reader.msg) /\ reader' # reader)
    => /\ reader'.pc = "read"
       /\ pending_requests' = pending_requests
       /\ queue' = queue
       /\ response' = response
       /\ outcome' = outcome

\* No call is handed a reply whose id is null.
NullIdNeverDelivered ==
    \A c \in Threads :
        /\ ~NullIdReply(response[c])
        /\ \A i \in 1..Len(queue[c]) : ~NullIdReply(queue[c][i])

====
